---------------------------- MODULE Spec2Model ----------------------------
(***************************************************************************)
(* State-machine model of the p3d_ocean simulation pipeline:               *)
(*   OceanApp.__init__  (src/src/app/ocean_app.py)                         *)
(*   OceanSpectrumGenerator.generate                                       *)
(*   OceanTimeSpectrum  (__init__, _apply_phase_bindings, step)            *)
(*   OceanIFFT2D.__init__                                                  *)
(*   OceanDisplacement.__init__                                            *)
(*   OceanApp.set_ocean_size, set_wind, set_choppiness, as DebugImGui.draw *)
(*   calls them (src/src/gui/debug_imgui.py)                               *)
(* and of one rendered frame: the compute nodes attached to the scene are  *)
(* dispatched in the order of their "fixed" bin draw-order tags.           *)
(* Beside the pipeline:                                                    *)
(*   DebugCardController.toggle, cycle  (src/src/app/debug_cards.py)       *)
(*   OrbitCameraController's event handlers and task (src/src/app/input.py)*)
(*   make_ocean_grid  (src/src/app/ocean_geometry.py)                      *)
(*                                                                         *)
(* Textures are identified by the name given to Texture(name).  A compute  *)
(* node is a record of its bin tag, its dispatch size and its shader       *)
(* inputs.  Engine calls (Texture.setup_2d_texture, attach_new_node,       *)
(* dispatch_compute) are modelled by what they record: the texture and its *)
(* size, the node, the dispatch.  They are taken not to raise.             *)
(***************************************************************************)
EXTENDS Integers, Sequences, FiniteSets, TLC

\* ---------------------------------------------------------------- bounds

\* resolutions -MaxRes..MaxRes are tried besides the powers of two
MaxRes == 9
\* powers of two 2^0 .. 2^MaxLog2 are tried (2^11 = 2048)
MaxLog2 == 11
\* step(dt) is called with dt in 1..MaxDt, in units of 2^-6 s
MaxDt == 1
\* number of frames (step() calls) of a run
MaxTicks == 3
\* set_ocean_size / set_wind calls of a run
MaxCalls == 2
\* make_ocean_grid is called with grid_subdiv in -MaxSubdiv .. MaxSubdiv
MaxSubdiv == 4
\* camera events (mouse button, wheel, camera task run, UI frame) of a run
MaxCameraEvents == 4
\* the debug UI is exercised on a pipeline of resolution 2^MaxUILog2
MaxUILog2 == 1

\* ------------------------------------------------------ program constants

OceanSizeDefault == 150
WindXDefault == 60
WindYDefault == 30
\* choppiness is kept in tenths: 15 stands for 1.5
ChoppinessDefault == 15
FFTBinStart == 10
MapsBinStart == 100
OceanDrawBin == 1000
WorkgroupSizeX == 256
\* floor(2 pi * 2^24): phase values are kept in units of 2^-24, and a value
\* v (in these units) is below 2 pi iff v <= TwoPiFloor
TwoPiFloor == 105414357
\* g * 2 pi = 9.81 * 6.2831853 m/s^2, in units of 2^-20
GravityTwoPi == 64632177

\* ---------------------------------------------------------------- helpers

RECURSIVE Pow2(_)
\* 1 << stage
Pow2(k) == IF k <= 0 THEN 1 ELSE 2 * Pow2(k - 1)

RECURSIVE BitAnd(_, _)
\* a & b for a, b >= 0
BitAnd(a, b) ==
    IF a = 0 \/ b = 0 THEN 0
    ELSE (IF a % 2 = 1 /\ b % 2 = 1 THEN 1 ELSE 0) + 2 * BitAnd(a \div 2, b \div 2)

RECURSIVE Log2(_)
\* int(math.log2(n)) for n >= 1
Log2(n) == IF n <= 1 THEN 0 ELSE 1 + Log2(n \div 2)

ResolutionInputs == (-MaxRes .. MaxRes) \cup {Pow2(k) : k \in 0 .. MaxLog2}

\* globalClock.get_dt() of a frame that took time
DeltaTimes == 1 .. MaxDt

NoTex == "none"
NoNode == [name |-> "none"]

\* Texture(name).setup_2d_texture(resolution, resolution, ...)
MakeTextureHalfSlope(name, res, seed_random) ==
    [name |-> name, size |-> IF name = "ocean_slope" THEN res \div 2 ELSE res,
     seeded |-> seed_random]
MakeTexture(name, res, seed_random) ==
    [name |-> name, size |-> res, seeded |-> seed_random]

\* int((resolution + 31) // 32) per axis
CellGroups(res) == <<(res + 31) \div 32, (res + 31) \div 32, 1>>

\* what the user types into the UI's "Ocean size" field
OceanSizeTyped == {0, 200}

\* what the fields "Wind X" / "Wind Y" hold after the user typed into one
\* of them
WindTyped == {<<60, 30>>, <<14, 30>>}

\* the "Choppiness" slider (0.0 .. 5.0) dragged to its left end, in tenths
ChoppinessTyped == {0}

\* values random.random() * (2.0 * math.pi) takes, in units of 2^-24 (floor):
\* about pi, and the last unit below 2 pi (random.random() = 1 - 2^-53)
SeedProducts == {52707179, TwoPiFloor}

VARIABLES
    pc,                  \* position in OceanApp.__init__ / the frame loop
    error,               \* exception raised by construction, or "none"
    resolution,          \* OceanApp._resolution
    ocean_size,          \* OceanApp._ocean_size
    wind_x,              \* OceanApp._wind_x
    wind_y,              \* OceanApp._wind_y
    choppiness,          \* OceanApp._choppiness (tenths)
    textures,            \* the textures allocated so far
    gen_count,           \* dispatches of the initial-spectrum kernel
    initial_spectrum_tex,\* OceanApp.initial_spectrum_tex
    phase_is_ping,       \* OceanTimeSpectrum._phase_is_ping
    phase_np,            \* OceanTimeSpectrum.phase_np
    spectrum_np,         \* OceanTimeSpectrum.spectrum_np
    fft_nodes,           \* the pass nodes OceanIFFT2D attached, in order
    ifft_displacement,   \* OceanIFFT2D.displacement
    unpack_np,           \* OceanDisplacement.unpack_np
    slope_np,            \* OceanDisplacement.slope_np
    ocean_np,            \* OceanApp.ocean_np (the surface draw)
    ticks,               \* step() calls so far
    frame_log,           \* nodes dispatched so far in the current frame
    time_config,         \* OceanTimeSpectrum.config
    maps_config,         \* OceanDisplacement.config
    phase_seed,          \* a cell of phase_ping's RAM image, units of 2^-24
    latest_phase,        \* the buffer the last executed phase dispatch wrote
    gen_log,             \* one record per generate() dispatch
    debug_initial_spectrum_tex, \* DebugCardController._initial_spectrum_tex
    ui_pc,               \* position in DebugImGui.draw
    ui_params,           \* DebugImGui._ocean_params
    calls,               \* set_ocean_size / set_wind calls so far
    last_call,           \* the last setter call: what was typed, what was passed
    phase_query,         \* what debug_current_phase_texture() last returned
    frame_snapshot,      \* the parameters the frame's first dispatch ran with
    gen_failed,          \* generate() raised inside a setter
    field,               \* what each texture holds (one representative cell)
    elapsed,             \* the delta times passed to step() so far, summed
    seed_product,        \* random.random() * (2.0 * math.pi) for the cell
    debug_mode,          \* DebugCardController._debug_mode
    debug_visible,       \* DebugCardController._debug_visible
    debug_card,          \* DebugCardController._debug_card
    debug_label,         \* DebugCardController._debug_label
    card_trail,          \* the views the last cycle() calls left, oldest first
    heading,             \* OrbitCameraController._heading (degrees)
    pitch,               \* OrbitCameraController._pitch (degrees)
    distance,            \* OrbitCameraController._distance
    min_distance,        \* OrbitCameraController._min_distance
    max_distance,        \* OrbitCameraController._max_distance
    dragging,            \* OrbitCameraController._dragging
    last_mouse,          \* OrbitCameraController._last_mouse
    want_capture_mouse,  \* DebugImGui.want_capture_mouse
    camera_events,       \* camera events and UI frames handled so far
    camera_op,           \* the last of them
    grid_args,           \* the arguments of a make_ocean_grid call
    ocean_mesh           \* the mesh the call returned, or what it raised

appVars == <<resolution, ocean_size, wind_x, wind_y, choppiness>>
timeVars == <<phase_is_ping, phase_np, spectrum_np>>
fftVars == <<fft_nodes, ifft_displacement>>
mapVars == <<unpack_np, slope_np, ocean_np>>
cfgVars == <<time_config, maps_config>>
uiVars == <<ui_pc, ui_params, calls, last_call>>
probeVars == <<latest_phase, phase_query, frame_snapshot>>
dataVars == <<field, elapsed>>
cardVars == <<debug_mode, debug_visible, debug_card, debug_label, card_trail>>
cameraVars == <<heading, pitch, distance, min_distance, max_distance,
                dragging, last_mouse, want_capture_mouse, camera_events,
                camera_op>>
gridVars == <<grid_args, ocean_mesh>>
sideVars == <<cardVars, cameraVars, gridVars>>
vars == <<pc, error, appVars, textures, gen_count, initial_spectrum_tex,
          timeVars, fftVars, mapVars, ticks, frame_log, cfgVars, phase_seed,
          gen_log, debug_initial_spectrum_tex, uiVars, probeVars, gen_failed,
          dataVars, seed_product, sideVars>>

\* the textures of the pipeline, by name
FieldNames ==
    {"initial_spectrum", "phase_ping", "phase_pong", "time_spectrum",
     "fft_ping", "fft_pong", "ocean_displacement", "ocean_slope"}

\* a texture not created yet
NoContent == [kind |-> "none", value |-> 0, horizontal_scale |-> 0,
              passes |-> 0, tick |-> 0]

\* a texture after setup_2d_texture and set_clear_color((0, 0, 0, 0)): zeros
Cleared == [NoContent EXCEPT !.kind = "clear"]

\* phase_ping after set_ram_image(phases.tobytes())
Seeded(stored) == [NoContent EXCEPT !.kind = "seed", !.value = stored]

NoConfig == [name |-> "none"]
NoCall == [op |-> "none"]

\* OrbitCameraController(app): the constructor's defaults
CameraDefaults ==
    [heading |-> 0, pitch |-> -25, distance |-> 300,
     min_distance |-> 10, max_distance |-> 5000]

\* OrbitCameraController.__init__(app, heading, pitch, distance,
\* min_distance, max_distance)
InitCamera(args) ==
    /\ heading = args.heading
    /\ pitch = args.pitch
    /\ distance = args.distance
    /\ min_distance = args.min_distance
    /\ max_distance = args.max_distance
    /\ dragging = FALSE
    /\ last_mouse = NoTex
    /\ want_capture_mouse = FALSE
    /\ camera_events = 0
    /\ camera_op = "none"

\* the ocean mesh is modelled apart from the pipeline, see MakeOceanGrid
InitMesh ==
    /\ grid_args = NoConfig
    /\ ocean_mesh = NoNode

InitPipeline ==
    /\ pc = "spectrum"
    /\ error = "none"
    /\ resolution \in ResolutionInputs
    /\ ocean_size = OceanSizeDefault
    /\ wind_x = WindXDefault
    /\ wind_y = WindYDefault
    /\ choppiness = ChoppinessDefault
    /\ textures = {}
    /\ gen_count = 0
    /\ initial_spectrum_tex = NoTex
    /\ phase_is_ping = TRUE
    /\ phase_np = NoNode
    /\ spectrum_np = NoNode
    /\ fft_nodes = <<>>
    /\ ifft_displacement = NoTex
    /\ unpack_np = NoNode
    /\ slope_np = NoNode
    /\ ocean_np = NoNode
    /\ ticks = 0
    /\ frame_log = <<>>
    /\ time_config = NoConfig
    /\ maps_config = NoConfig
    /\ phase_seed = NoTex
    /\ latest_phase = NoTex
    /\ gen_log = <<>>
    /\ debug_initial_spectrum_tex = NoTex
    /\ ui_pc = "idle"
    /\ ui_params = NoConfig
    /\ calls = 0
    /\ last_call = NoCall
    /\ phase_query = NoTex
    /\ frame_snapshot = NoConfig
    /\ gen_failed = FALSE
    /\ field = [n \in FieldNames |-> NoContent]
    /\ elapsed = 0
    /\ seed_product \in SeedProducts
    /\ debug_mode = 0
    /\ debug_visible = FALSE
    /\ debug_card = NoNode
    /\ debug_label = NoNode
    /\ card_trail = <<>>

Init ==
    /\ InitPipeline
    /\ InitCamera(CameraDefaults)
    /\ InitMesh


\* ------------------------------------------- OceanSpectrumGenerator.generate

\* target_tex is None: create_texture(config.resolution); else the caller's
GenerateTarget(target_tex) ==
    IF target_tex = NoTex THEN "initial_spectrum" ELSE target_tex

GenerateTextures(target_tex, res) ==
    IF target_tex = NoTex
    THEN textures \cup {MakeTexture("initial_spectrum", res, FALSE)}
    ELSE textures

\* ------------------------------------------------------------ the kernels
\* What the compute shaders write, for one representative cell. Phases are
\* in units of 2^-24 rad, delta times in units of 2^-6 s, angular
\* frequencies in units of 2^-10 rad/s.

\* initial_spectrum.comp: the static spectrum of (N, L, wind)
SpectrumKernel ==
    [NoContent EXCEPT !.kind = "spectrum"]

RECURSIVE ISqrtBetween(_, _, _)
\* the r with lo <= r < hi and r * r <= x < (r + 1) * (r + 1)
ISqrtBetween(lo, hi, x) ==
    IF hi - lo <= 1 THEN lo
    ELSE LET mid == (lo + hi) \div 2
         IN  IF mid * mid <= x THEN ISqrtBetween(mid, hi, x)
             ELSE ISqrtBetween(lo, mid, x)

\* omega = sqrt(g |k|) of the cell with |k| = 2 pi / L
Omega(size) == ISqrtBetween(0, Pow2(13), GravityTwoPi \div size)

\* wrap(x, 2 pi) on the grid of phase units
Wrap(x) == x % (TwoPiFloor + 1)

\* phase.comp: writePhase = wrap(readPhase + omega * deltaTime, 2 pi)
PhaseKernel(read, size, delta_time, tick) ==
    [NoContent EXCEPT !.kind = "phase",
                      !.value = Wrap(read.value
                                     + Omega(size) * delta_time * Pow2(8)),
                      !.tick = tick]

\* time_spectrum.comp: h = S e^{i phi} + conj(S(-k)) e^{-i phi}; the two
\* horizontal channels are h scaled by i k/|k| choppiness
AssembleKernel(spectrum, phase, chop, tick) ==
    [NoContent EXCEPT !.kind = "time_spectrum", !.value = phase.value,
                      !.horizontal_scale = chop, !.tick = tick]

\* fft_horizontal.comp / fft_vertical.comp: one butterfly pass, linear in
\* each of the three channels
ButterflyKernel(input) ==
    [input EXCEPT !.kind = "transformed", !.passes = @ + 1]

\* unpack_displacement.comp: the real parts of the three channels, the
\* horizontal ones as they come (choppiness was applied upstream)
UnpackKernel(input) ==
    [input EXCEPT !.kind = "displacement"]

\* slope_map.comp: finite differences of the vertical displacement
SlopeKernel(displacement) ==
    [displacement EXCEPT !.kind = "slope", !.horizontal_scale = 0]

\* the textures `f` after the compute node `node` has run on them with its
\* bound inputs
KernelWriteOn(f, node, tick) ==
    CASE node.name = "ocean_phase" ->
            [f EXCEPT ![node.u_delta_phases] =
                PhaseKernel(f[node.u_phases], node.u_ocean_size,
                            node.u_delta_time, tick)]
      [] node.name = "ocean_spectrum" ->
            [f EXCEPT ![node.u_spectrum] =
                AssembleKernel(f[node.u_initial_spectrum],
                               f[node.u_phases], node.u_choppiness, tick)]
      [] node.name \in {"ocean_fft_h", "ocean_fft_v"} ->
            [f EXCEPT ![node.u_output] = ButterflyKernel(f[node.u_input])]
      [] node.name = "ocean_unpack_displacement" ->
            [f EXCEPT ![node.u_displacement] = UnpackKernel(f[node.u_ifft])]
      [] node.name = "ocean_slope_map" ->
            [f EXCEPT ![node.u_slope_map] =
                SlopeKernel(f[node.u_displacement])]
      [] OTHER -> f

\* the textures after the compute node `node` has run with its bound inputs
KernelWrite(node, tick) == KernelWriteOn(field, node, tick)

\* the shader inputs generate() binds on its dummy node, and its dispatch size
GenInputsWithCallSeed(target, res, size, wx, wy) ==
    [u_initial_spectrum |-> target, u_resolution |-> res,
     u_ocean_size |-> size, u_wind |-> <<wx, wy>>,
     u_seed |-> gen_count, groups |-> CellGroups(res)]
GenInputs(target, res, size, wx, wy) ==
    [u_initial_spectrum |-> target, u_resolution |-> res,
     u_ocean_size |-> size, u_wind |-> <<wx, wy>>,
     groups |-> CellGroups(res)]

\* app.graphics_engine.dispatch_compute(...): one dispatch per call
GenDispatchSkipped(count) == count
GenDispatch(count) == count + 1

\* what one generate(app, OceanSpectrumConfig(res, size, wx, wy), target_tex)
\* call leaves in gen_log
GenRecord(target_tex, res, size, wx, wy) ==
    [target_in |-> target_tex,
     target |-> GenerateTarget(target_tex),
     created |-> (target_tex = NoTex),
     config |-> [resolution |-> res, ocean_size |-> size,
                 wind_x |-> wx, wind_y |-> wy],
     inputs |-> GenInputs(GenerateTarget(target_tex), res, size, wx, wy)]

\* OceanApp.__init__: "Initial spectrum (generated once at startup)".
\* generate() has no check of config.resolution: it allocates and dispatches.
GenerateInitialSpectrum ==
    /\ pc = "spectrum"
    /\ textures' = GenerateTextures(NoTex, resolution)
    /\ gen_count' = GenDispatch(gen_count)
    /\ gen_log' = Append(gen_log,
                         GenRecord(NoTex, resolution, ocean_size, wind_x, wind_y))
    /\ initial_spectrum_tex' = GenerateTarget(NoTex)
    /\ field' = [field EXCEPT ![GenerateTarget(NoTex)] = SpectrumKernel]
    /\ pc' = "time"
    /\ UNCHANGED <<error, appVars, seed_product, sideVars, timeVars, fftVars, mapVars, ticks, frame_log,
                   cfgVars, phase_seed, debug_initial_spectrum_tex, uiVars,
                   probeVars, gen_failed, elapsed>>

\* --------------------------------------------------------- OceanTimeSpectrum

\* _apply_phase_bindings: src of the phase kernel
PhaseSrcAlwaysPing(is_ping) == "phase_ping"
PhaseSrc(is_ping) == IF is_ping THEN "phase_ping" ELSE "phase_pong"

\* _apply_phase_bindings: dst of the phase kernel
PhaseDstAlwaysPong(is_ping) == "phase_pong"
PhaseDstInPlace(is_ping) == PhaseSrc(is_ping)
PhaseDst(is_ping) == IF is_ping THEN "phase_pong" ELSE "phase_ping"

\* _apply_phase_bindings: the buffer bound as spectrum_np's u_phases
AssemblerPhaseReadsSrc(is_ping) == PhaseSrc(is_ping)
AssemblerPhase(is_ping) == PhaseDst(is_ping)

\* phase_np after _apply_phase_bindings(delta_time)
BindPhaseNodeSwapped(node, is_ping, delta_time) ==
    [node EXCEPT !.u_phases = PhaseDst(is_ping),
                 !.u_delta_phases = PhaseSrc(is_ping),
                 !.u_delta_time = delta_time]
BindPhaseNode(node, is_ping, delta_time) ==
    [node EXCEPT !.u_phases = PhaseSrc(is_ping),
                 !.u_delta_phases = PhaseDst(is_ping),
                 !.u_delta_time = delta_time]

\* spectrum_np after _apply_phase_bindings(delta_time)
BindSpectrumNodeRebinding(node, is_ping) ==
    [node EXCEPT !.u_phases = AssemblerPhase(is_ping),
                 !.u_choppiness = ChoppinessDefault]
BindSpectrumNode(node, is_ping) ==
    [node EXCEPT !.u_phases = AssemblerPhase(is_ping)]

\* step(): the role flag after the call
StepFlagKept(is_ping) == is_ping
StepFlag(is_ping) == ~is_ping

\* the spacing of float32 values around x (x in units of 2^-24): 2^-21 in
\* [4, 8), 2^-22 in [2, 4), 2^-23 in [1, 2); below 1 every unit is a float32
Float32Ulp(x) ==
    IF x >= Pow2(26) THEN 8
    ELSE IF x >= Pow2(25) THEN 4
    ELSE IF x >= Pow2(24) THEN 2
    ELSE 1

\* array("f", ...): a double in [x, x + 1) units, not on a unit boundary
\* unless x is, stored as the nearest float32 (ties cannot occur off the
\* boundaries; on them they go to the even neighbour)
Float32(x) ==
    LET ulp == Float32Ulp(x)
        q == x \div ulp
        r == x % ulp
    IN  IF 2 * r > ulp \/ (2 * r = ulp /\ q % 2 = 1)
        THEN (q + 1) * ulp
        ELSE q * ulp

\* the debug accessor: self.phase_ping if self._phase_is_ping else self.phase_pong
DebugCurrentPhaseTexture ==
    IF phase_is_ping THEN "phase_ping" ELSE "phase_pong"

\* OceanTimeSpectrum.__init__(app, initial_spectrum, OceanTimeConfig(...))
ConstructTimeSpectrum ==
    /\ pc = "time"
    /\ textures' = textures \cup
           { MakeTexture("phase_ping", resolution, TRUE),
             MakeTexture("phase_pong", resolution, FALSE),
             MakeTexture("time_spectrum", resolution, FALSE) }
    /\ time_config' = [resolution |-> resolution, ocean_size |-> ocean_size,
                       choppiness |-> choppiness]
    /\ phase_seed' = Float32(seed_product)
    /\ field' = [field EXCEPT !["phase_ping"] = Seeded(phase_seed'),
                              !["phase_pong"] = Cleared,
                              !["time_spectrum"] = Cleared]
    /\ latest_phase' = "phase_ping"
    /\ phase_is_ping' = TRUE
    /\ phase_np' = BindPhaseNode(
           [name |-> "ocean_phase", p |-> 0, bin |-> 0,
            groups |-> CellGroups(resolution),
            u_resolution |-> resolution, u_ocean_size |-> ocean_size,
            u_phases |-> NoTex, u_delta_phases |-> NoTex, u_delta_time |-> 0],
           TRUE, 0)
    /\ spectrum_np' = BindSpectrumNode(
           [name |-> "ocean_spectrum", p |-> 0, bin |-> 1,
            groups |-> CellGroups(resolution),
            u_resolution |-> resolution, u_ocean_size |-> ocean_size,
            u_choppiness |-> choppiness,
            u_initial_spectrum |-> initial_spectrum_tex,
            u_spectrum |-> "time_spectrum", u_phases |-> NoTex],
           TRUE)
    /\ pc' = "ifft"
    /\ UNCHANGED <<error, appVars, seed_product, sideVars, gen_count, initial_spectrum_tex, fftVars,
                   mapVars, ticks, frame_log, maps_config, gen_log,
                   debug_initial_spectrum_tex, uiVars, phase_query,
                   frame_snapshot, gen_failed, elapsed>>

\* step(delta_time): "Call once per frame."  Run by the ocean_step task.
Step ==
    /\ pc = "tick"
    /\ ui_pc = "idle"
    /\ ticks < MaxTicks
    /\ \E dt \in DeltaTimes :
          /\ phase_np' = BindPhaseNode(phase_np, phase_is_ping, dt)
          /\ spectrum_np' = BindSpectrumNode(spectrum_np, phase_is_ping)
          /\ elapsed' = elapsed + dt
    /\ phase_is_ping' = StepFlag(phase_is_ping)
    /\ ocean_np' = [ocean_np EXCEPT !.u_camera_pos = "camera_pos"]
    /\ ticks' = ticks + 1
    /\ frame_log' = <<>>
    /\ card_trail' = <<>>
    /\ pc' = "frame"
    /\ UNCHANGED <<error, appVars, seed_product, debug_mode, debug_visible,
                   debug_card, debug_label, cameraVars, gridVars, textures, gen_count, initial_spectrum_tex,
                   fftVars, unpack_np, slope_np, cfgVars, phase_seed, gen_log,
                   debug_initial_spectrum_tex, uiVars, probeVars, gen_failed,
                   field>>

\* --------------------------------------------------------------- OceanIFFT2D

\* if n <= 0 or (n & (n - 1)) != 0: raise ValueError
RejectsOnlyNonPositive(n) == n <= 0
RejectsResolution(n) == n <= 0 \/ BitAnd(n, n - 1) # 0

\* self._stages = int(math.log2(n))
Stages(n) == Log2(n)

\* self._groups_x = (self._thread_count + 256 - 1) // 256, thread_count = n // 2
GroupsXSurplus(n) == (n \div 2) \div WorkgroupSizeX + 1
GroupsX(n) == ((n \div 2) + WorkgroupSizeX - 1) \div WorkgroupSizeX

\* p = 1 << stage
SubseqCountLinear(stage) == stage + 1
SubseqCount(stage) == Pow2(stage)

\* self.pong if current_out is self.ping else self.ping
NextOutSame(current_out) == current_out
NextOut(current_out) == IF current_out = "fft_ping" THEN "fft_pong" ELSE "fft_ping"

\* order += 1
NextOrderStuck(order) == order
NextOrder(order) == order + 1

RECURSIVE PassLoop(_, _, _, _, _, _, _)
\* for stage in range(self._stages): one pass node per stage; the result
\* carries the loop's current_in, current_out and order on
PassLoop(stage, stages, n, name, current_in, current_out, order) ==
    IF stage >= stages
    THEN [passes |-> <<>>, current_in |-> current_in,
          current_out |-> current_out, order |-> order]
    ELSE LET node == [name |-> name, p |-> SubseqCount(stage), bin |-> order,
                      groups |-> <<GroupsX(n), n, 1>>,
                      u_total_count |-> n,
                      u_subseq_count |-> SubseqCount(stage),
                      u_input |-> current_in, u_output |-> current_out]
             rest == PassLoop(stage + 1, stages, n, name, current_out,
                              NextOut(current_out), NextOrder(order))
         IN  [rest EXCEPT !.passes = <<node>> \o rest.passes]

\* the horizontal loop, then the vertical loop continuing from its state
HorizontalPasses(n, input_spectrum, bin_start) ==
    PassLoop(0, Stages(n), n, "ocean_fft_h", input_spectrum, "fft_ping", bin_start)

VerticalPasses(n, h) ==
    PassLoop(0, Stages(n), n, "ocean_fft_v", h.current_in, h.current_out, h.order)

\* OceanIFFT2D.__init__(app, ocean_time.spectrum, OceanFFTConfig(resolution))
ConstructIFFT ==
    /\ pc = "ifft"
    /\ IF RejectsResolution(resolution)
       THEN /\ error' = "ValueError"
            /\ pc' = "failed"
            /\ UNCHANGED <<textures, fftVars, field>>
       ELSE LET h == HorizontalPasses(resolution, spectrum_np.u_spectrum, FFTBinStart)
                v == VerticalPasses(resolution, h)
            IN  /\ textures' = textures \cup
                       { MakeTexture("fft_ping", resolution, FALSE),
                         MakeTexture("fft_pong", resolution, FALSE) }
                /\ field' = [field EXCEPT !["fft_ping"] = Cleared,
                                          !["fft_pong"] = Cleared]
                /\ fft_nodes' = h.passes \o v.passes
                /\ ifft_displacement' = v.current_in
                /\ pc' = "maps"
                /\ UNCHANGED error
    /\ UNCHANGED <<appVars, seed_product, sideVars, gen_count, initial_spectrum_tex, timeVars, mapVars,
                   ticks, frame_log, cfgVars, phase_seed, gen_log,
                   debug_initial_spectrum_tex, uiVars, probeVars, gen_failed,
                   elapsed>>

\* --------------------------------------------------------- OceanDisplacement

\* unpack_np: reads the IFFT output, writes the displacement map
UnpackNode(res, ifft_output) ==
    [name |-> "ocean_unpack_displacement", p |-> 0,
     bin |-> MapsBinStart,
     groups |-> CellGroups(res),
     u_resolution |-> res,
     u_ifft |-> ifft_output,
     u_displacement |-> "ocean_displacement"]

\* slope_np: reads the displacement map, writes the slope map
SlopeNodeReadingIFFT(res, size) ==
    [name |-> "ocean_slope_map", p |-> 0,
     bin |-> MapsBinStart + 1,
     groups |-> CellGroups(res),
     u_resolution |-> res,
     u_ocean_size |-> size,
     u_displacement |-> ifft_displacement,
     u_slope_map |-> "ocean_slope"]
SlopeNode(res, size) ==
    [name |-> "ocean_slope_map", p |-> 0,
     bin |-> MapsBinStart + 1,
     groups |-> CellGroups(res),
     u_resolution |-> res,
     u_ocean_size |-> size,
     u_displacement |-> "ocean_displacement",
     u_slope_map |-> "ocean_slope"]

\* OceanDisplacement.__init__(app, ocean_ifft.displacement, OceanMapsConfig(...))
ConstructDisplacement ==
    /\ pc = "maps"
    /\ textures' = textures \cup
           { MakeTexture("ocean_displacement", resolution, FALSE),
             MakeTexture("ocean_slope", resolution, FALSE) }
    /\ unpack_np' = UnpackNode(resolution, ifft_displacement)
    /\ slope_np' = SlopeNode(resolution, ocean_size)
    /\ maps_config' = [resolution |-> resolution, ocean_size |-> ocean_size]
    /\ field' = [field EXCEPT !["ocean_displacement"] = Cleared,
                              !["ocean_slope"] = Cleared]
    /\ pc' = "render"
    /\ UNCHANGED <<error, appVars, seed_product, sideVars, gen_count, initial_spectrum_tex, timeVars,
                   fftVars, ocean_np, ticks, frame_log, time_config, phase_seed,
                   gen_log, debug_initial_spectrum_tex, uiVars, probeVars,
                   gen_failed, elapsed>>

\* get_ocean_parameters(): the entries the simulation claims are about
GetOceanParameters ==
    [resolution |-> resolution, ocean_size |-> ocean_size,
     wind_x |-> wind_x, wind_y |-> wind_y, choppiness |-> choppiness]

\* the view the debug card and its label show
CardSnapshot ==
    [mode |-> debug_mode, texture |-> debug_card.texture,
     u_gain |-> debug_card.u_gain, u_mode |-> debug_card.u_mode,
     label |-> debug_label.text]

\* OceanApp.__init__: the ocean surface's shader inputs and bin, then the
\* ocean_step task is added, the debug cards are created with the initial
\* spectrum texture, and the debug UI is bound (bind_ocean caches
\* get_ocean_parameters())
SetupOceanRender ==
    /\ pc = "render"
    /\ ocean_np' = [name |-> "ocean", p |-> 0, bin |-> OceanDrawBin,
                    u_displacement_map |-> unpack_np.u_displacement,
                    u_normal_map |-> slope_np.u_slope_map,
                    u_camera_pos |-> "unset"]
    /\ debug_initial_spectrum_tex' = initial_spectrum_tex
    /\ debug_mode' = 0
    /\ debug_visible' = FALSE
    /\ debug_card' = [texture |-> initial_spectrum_tex, u_gain |-> 2000,
                      u_mode |-> 0, hidden |-> TRUE]
    /\ debug_label' = [text |-> "Initial spectrum", hidden |-> TRUE]
    /\ card_trail' = << CardSnapshot' >>
    /\ ui_params' = GetOceanParameters
    /\ pc' = "tick"
    /\ UNCHANGED <<error, appVars, seed_product, cameraVars, gridVars, textures, gen_count, initial_spectrum_tex,
                   timeVars, fftVars, unpack_np, slope_np, ticks, frame_log,
                   cfgVars, phase_seed, gen_log, ui_pc, calls, last_call,
                   probeVars, gen_failed, dataVars>>

\* ------------------------------------------------------------------ a frame

\* the nodes attached to the scene, in the order they were attached
SceneNodes ==
    LET one(n) == IF n = NoNode THEN <<>> ELSE <<n>>
    IN  one(phase_np) \o one(spectrum_np) \o fft_nodes
        \o one(unpack_np) \o one(slope_np) \o one(ocean_np)

\* what identifies a node in frame_log
Tag(node) == <<node.name, node.p>>

Dispatched == {frame_log[i] : i \in 1 .. Len(frame_log)}

Pending == {i \in 1 .. Len(SceneNodes) : Tag(SceneNodes[i]) \notin Dispatched}

RECURSIVE RenderFrameOn(_, _)
\* the textures `f` after the scene's nodes not in `done` have run on them,
\* by ascending draw order, with the bindings the nodes have now
RenderFrameOn(f, done) ==
    LET todo == (1 .. Len(SceneNodes)) \ done
    IN  IF todo = {} THEN f
        ELSE LET i == CHOOSE k \in todo :
                          \A j \in todo : SceneNodes[k].bin <= SceneNodes[j].bin
             IN  RenderFrameOn(KernelWriteOn(f, SceneNodes[i], ticks),
                               done \cup {i})

\* The "fixed" bin runs its nodes by ascending draw order; nodes with equal
\* tags have no order among themselves.
\* what the stages of a frame read: the application's parameters, the
\* configs, the values bound to the nodes and the spectrum field's generation
FrameView ==
    [params |-> GetOceanParameters,
     time_config |-> time_config, maps_config |-> maps_config,
     generation |-> gen_count,
     initial_spectrum |-> spectrum_np.u_initial_spectrum,
     u_ocean_size |-> <<phase_np.u_ocean_size, spectrum_np.u_ocean_size,
                        slope_np.u_ocean_size>>,
     u_choppiness |-> spectrum_np.u_choppiness]

Dispatch ==
    /\ pc = "frame"
    /\ ui_pc = "idle"
    /\ \E i \in Pending :
          /\ \A j \in Pending : SceneNodes[i].bin <= SceneNodes[j].bin
          /\ frame_log' = Append(frame_log, Tag(SceneNodes[i]))
          /\ field' = KernelWrite(SceneNodes[i], ticks)
          /\ latest_phase' = IF SceneNodes[i].name = "ocean_phase"
                             THEN phase_np.u_delta_phases
                             ELSE latest_phase
          /\ pc' = IF Pending = {i} THEN "tick" ELSE "frame"
    /\ frame_snapshot' = IF frame_log = <<>> THEN FrameView ELSE frame_snapshot
    /\ UNCHANGED <<error, appVars, seed_product, sideVars, textures, gen_count, initial_spectrum_tex,
                   timeVars, fftVars, mapVars, ticks, cfgVars, phase_seed,
                   gen_log, debug_initial_spectrum_tex, uiVars, phase_query,
                   gen_failed, elapsed>>

\* ---------------------------------------------------------------------
\* Live reconfiguration: OceanApp's setters, called from DebugImGui.draw
\* ---------------------------------------------------------------------

\* Panda3D runs tasks and event handlers on the thread that renders:
\* "imgui-new-frame" and key events are handled between two frames' draws,
\* before or after the ocean_step task, never inside render_frame
UiAllowedInsideFrame == pc \in {"tick", "frame"}
UiAllowed == pc = "tick" \/ (pc = "frame" /\ frame_log = <<>>)

\* _regenerate_initial_spectrum passes target_tex = self.initial_spectrum_tex
RegenerateTargetNone == NoTex
RegenerateTarget == initial_spectrum_tex

\* _regenerate_initial_spectrum() with the parameters the setter has just
\* stored; the texture generate() returns is not kept
RegenerateInitialSpectrum(size, wx, wy) ==
    /\ textures' = GenerateTextures(RegenerateTarget, resolution)
    /\ gen_count' = GenDispatch(gen_count)
    /\ gen_log' = Append(gen_log,
                         GenRecord(RegenerateTarget, resolution, size, wx, wy))
    /\ field' = [field EXCEPT ![GenerateTarget(RegenerateTarget)] =
                                  SpectrumKernel]
    /\ UNCHANGED initial_spectrum_tex

\* generate() raises before its dispatch has run: nothing is generated, and
\* the exception leaves the setter, draw() and the task loop
RegenerateFails ==
    /\ gen_failed' = TRUE
    /\ pc' = "crashed"
    /\ UNCHANGED <<textures, gen_count, gen_log, initial_spectrum_tex, field>>

\* set_ocean_size(ocean_size), up to the call of _regenerate_initial_spectrum
StoreOceanSizeSkippingSlope(size) ==
    /\ ocean_size' = size
    /\ time_config' = [time_config EXCEPT !.ocean_size = size]
    /\ phase_np' = [phase_np EXCEPT !.u_ocean_size = size]
    /\ spectrum_np' = [spectrum_np EXCEPT !.u_ocean_size = size]
    /\ maps_config' = [maps_config EXCEPT !.ocean_size = size]
    /\ UNCHANGED <<resolution, wind_x, wind_y, choppiness, slope_np>>
StoreOceanSize(size) ==
    /\ ocean_size' = size
    /\ time_config' = [time_config EXCEPT !.ocean_size = size]
    /\ phase_np' = [phase_np EXCEPT !.u_ocean_size = size]
    /\ spectrum_np' = [spectrum_np EXCEPT !.u_ocean_size = size]
    /\ maps_config' = [maps_config EXCEPT !.ocean_size = size]
    /\ slope_np' = [slope_np EXCEPT !.u_ocean_size = size]
    /\ UNCHANGED <<resolution, wind_x, wind_y, choppiness>>

\* set_wind(wind_x, wind_y), up to the call of _regenerate_initial_spectrum
StoreWindSwapped(wx, wy) ==
    /\ wind_x' = wy
    /\ wind_y' = wx
    /\ UNCHANGED <<resolution, ocean_size, choppiness, cfgVars, phase_np,
                   spectrum_np, slope_np>>
StoreWind(wx, wy) ==
    /\ wind_x' = wx
    /\ wind_y' = wy
    /\ UNCHANGED <<resolution, ocean_size, choppiness, cfgVars, phase_np,
                   spectrum_np, slope_np>>

SetOceanSize(size) ==
    /\ StoreOceanSize(size)
    /\ RegenerateInitialSpectrum(size, wind_x, wind_y)

SetWindRegeneratingOldWind(wx, wy) ==
    /\ StoreWind(wx, wy)
    /\ RegenerateInitialSpectrum(ocean_size, wind_x, wind_y)
SetWind(wx, wy) ==
    /\ StoreWind(wx, wy)
    /\ RegenerateInitialSpectrum(ocean_size, wx, wy)

SetChoppinessKeepingBinding(value) ==
    /\ choppiness' = value
    /\ time_config' = [time_config EXCEPT !.choppiness = value]
    /\ UNCHANGED <<resolution, ocean_size, wind_x, wind_y, maps_config,
                   phase_np, spectrum_np, slope_np, textures, gen_count,
                   gen_log, initial_spectrum_tex, field>>
SetChoppinessAlsoInSlope(value) ==
    /\ choppiness' = value
    /\ time_config' = [time_config EXCEPT !.choppiness = value]
    /\ spectrum_np' = [spectrum_np EXCEPT !.u_choppiness = value]
    /\ slope_np' = [u_choppiness |-> value] @@ slope_np
    /\ UNCHANGED <<resolution, ocean_size, wind_x, wind_y, maps_config,
                   phase_np, textures, gen_count, gen_log,
                   initial_spectrum_tex, field>>
SetChoppiness(value) ==
    /\ choppiness' = value
    /\ time_config' = [time_config EXCEPT !.choppiness = value]
    /\ spectrum_np' = [spectrum_np EXCEPT !.u_choppiness = value]
    /\ UNCHANGED <<resolution, ocean_size, wind_x, wind_y, maps_config,
                   phase_np, slope_np, textures, gen_count, gen_log,
                   initial_spectrum_tex, field>>

\* ocean_size = max(1, int(ocean_size))
UiOceanSize(typed) == IF typed > 1 THEN typed ELSE 1

\* what no part of draw() touches
UiFrame ==
    UNCHANGED <<error, phase_is_ping, fftVars, unpack_np, ocean_np, ticks,
                frame_log, phase_seed, debug_initial_spectrum_tex, probeVars,
                elapsed, seed_product, sideVars>>

UiNoCall ==
    UNCHANGED <<appVars, textures, gen_count, gen_log, initial_spectrum_tex,
                cfgVars, phase_np, spectrum_np, slope_np, ui_params, calls,
                last_call, field>>

\* draw(): the "Ocean size" field
DrawOceanSize ==
    /\ UiAllowed
    /\ ui_pc = "idle"
    /\ ui_pc' = "wind"
    /\ \/ UiNoCall
       \/ \E typed \in OceanSizeTyped :
             /\ calls < MaxCalls
             /\ typed # ui_params.ocean_size
             /\ ui_params' = [ui_params EXCEPT !.ocean_size = UiOceanSize(typed)]
             /\ SetOceanSize(UiOceanSize(typed))
             /\ calls' = calls + 1
             /\ last_call' = [op |-> "set_ocean_size", typed |-> typed,
                              arg |-> UiOceanSize(typed)]
    /\ UNCHANGED <<pc, gen_failed>>
    /\ UiFrame

\* draw(): the "Wind X" and "Wind Y" fields
DrawWind ==
    /\ UiAllowed
    /\ ui_pc = "wind"
    /\ ui_pc' = "chop"
    /\ \/ UiNoCall
       \/ \E typed \in WindTyped :
             /\ calls < MaxCalls
             /\ typed # <<ui_params.wind_x, ui_params.wind_y>>
             /\ ui_params' = [ui_params EXCEPT !.wind_x = typed[1],
                                               !.wind_y = typed[2]]
             /\ SetWind(typed[1], typed[2])
             /\ calls' = calls + 1
             /\ last_call' = [op |-> "set_wind", typed |-> typed,
                              arg |-> typed]
    /\ UNCHANGED <<pc, gen_failed>>
    /\ UiFrame

\* draw(): the "Choppiness" slider
DrawChoppiness ==
    /\ UiAllowed
    /\ ui_pc = "chop"
    /\ ui_pc' = "idle"
    /\ \/ UiNoCall
       \/ \E typed \in ChoppinessTyped :
             /\ typed # ui_params.choppiness
             /\ ui_params' = [ui_params EXCEPT !.choppiness = typed]
             /\ SetChoppiness(typed)
             /\ last_call' = [op |-> "set_choppiness", typed |-> typed,
                              arg |-> typed]
             /\ UNCHANGED calls
    /\ UNCHANGED <<pc, gen_failed>>
    /\ UiFrame

\* debug_current_phase_texture() leaves the role flag as it found it
FlagAfterQueryFlipped(is_ping) == ~is_ping
FlagAfterQuery(is_ping) == is_ping

\* DebugCardController.cycle() reaching mode 1 ("c" key) asks the time
\* spectrum for its current phase texture
QueryPhaseTexture ==
    /\ UiAllowed
    /\ ui_pc = "idle"
    /\ phase_query' = DebugCurrentPhaseTexture
    /\ phase_is_ping' = FlagAfterQuery(phase_is_ping)
    /\ UNCHANGED <<pc, error, appVars, seed_product, sideVars, textures, gen_count,
                   initial_spectrum_tex, phase_np, spectrum_np, fftVars,
                   mapVars, ticks, frame_log, cfgVars, phase_seed, gen_log,
                   debug_initial_spectrum_tex, uiVars, latest_phase,
                   frame_snapshot, gen_failed, dataVars>>

\* ------------------------------------------------------ DebugCardController

\* self._debug_mode = (self._debug_mode + 1) % 5
NextModeOfSix(mode) == (mode + 1) % 6
NextMode(mode) == (mode + 1) % 5

\* if not self._debug_visible: return
CycleAllowedAlways == TRUE
CycleAllowed == debug_visible

\* the texture, gain, shader mode and label cycle() sets for a mode
CardView(mode) ==
    CASE mode = 0 ->
            [texture |-> debug_initial_spectrum_tex, u_gain |-> 2000,
             u_mode |-> 0, label |-> "Initial spectrum"]
      [] mode = 1 ->
            [texture |-> DebugCurrentPhaseTexture, u_gain |-> 2000,
             u_mode |-> 3, label |-> "Phase"]
      [] mode = 2 ->
            [texture |-> spectrum_np.u_spectrum, u_gain |-> 2000,
             u_mode |-> 1, label |-> "Time spectrum"]
      [] mode = 3 ->
            [texture |-> unpack_np.u_displacement, u_gain |-> 10,
             u_mode |-> 4, label |-> "Displacement (height)"]
      [] OTHER ->
            [texture |-> slope_np.u_slope_map, u_gain |-> 1,
             u_mode |-> 5, label |-> "Normal map"]

\* what neither toggle() nor cycle() touches
CardFrame ==
    UNCHANGED <<pc, error, appVars, seed_product, textures, gen_count,
                initial_spectrum_tex, phase_np, spectrum_np, fftVars,
                mapVars, ticks, frame_log, cfgVars, phase_seed, gen_log,
                debug_initial_spectrum_tex, uiVars, latest_phase,
                frame_snapshot, gen_failed, dataVars, cameraVars, gridVars>>

\* toggle(), the "c" key
Toggle ==
    /\ UiAllowed
    /\ ui_pc = "idle"
    /\ debug_visible' = ~debug_visible
    /\ debug_card' = [debug_card EXCEPT !.hidden = ~debug_visible']
    /\ debug_label' = [debug_label EXCEPT !.hidden = ~debug_visible']
    /\ UNCHANGED <<debug_mode, card_trail, phase_is_ping, phase_query>>
    /\ CardFrame

\* cycle(), the "d" key
Cycle ==
    /\ UiAllowed
    /\ ui_pc = "idle"
    /\ IF ~CycleAllowed
       THEN UNCHANGED <<cardVars, phase_is_ping, phase_query>>
       ELSE LET mode == NextMode(debug_mode)
                view == CardView(mode)
            IN  /\ debug_mode' = mode
                /\ debug_card' = [debug_card EXCEPT !.texture = view.texture,
                                                    !.u_gain = view.u_gain,
                                                    !.u_mode = view.u_mode]
                /\ debug_label' = [debug_label EXCEPT !.text = view.label]
                /\ card_trail' =
                      LET t == Append(card_trail, CardSnapshot')
                      IN  IF Len(t) > 5 + 1 THEN Tail(t) ELSE t
                /\ phase_query' = IF mode = 1 THEN DebugCurrentPhaseTexture
                                  ELSE phase_query
                /\ phase_is_ping' = IF mode = 1
                                    THEN FlagAfterQuery(phase_is_ping)
                                    ELSE phase_is_ping
                /\ UNCHANGED debug_visible
    /\ CardFrame

\* draw(): the "Ocean size" field, when generate() raises
DrawOceanSizeFails ==
    /\ UiAllowed
    /\ ui_pc = "idle"
    /\ \E typed \in OceanSizeTyped :
          /\ calls < MaxCalls
          /\ typed # ui_params.ocean_size
          /\ ui_params' = [ui_params EXCEPT !.ocean_size = UiOceanSize(typed)]
          /\ StoreOceanSize(UiOceanSize(typed))
          /\ RegenerateFails
          /\ calls' = calls + 1
          /\ last_call' = [op |-> "set_ocean_size", typed |-> typed,
                           arg |-> UiOceanSize(typed)]
    /\ UNCHANGED ui_pc
    /\ UiFrame

\* draw(): the wind fields, when generate() raises
DrawWindFails ==
    /\ UiAllowed
    /\ ui_pc = "wind"
    /\ \E typed \in WindTyped :
          /\ calls < MaxCalls
          /\ typed # <<ui_params.wind_x, ui_params.wind_y>>
          /\ ui_params' = [ui_params EXCEPT !.wind_x = typed[1],
                                            !.wind_y = typed[2]]
          /\ StoreWind(typed[1], typed[2])
          /\ RegenerateFails
          /\ calls' = calls + 1
          /\ last_call' = [op |-> "set_wind", typed |-> typed, arg |-> typed]
    /\ UNCHANGED ui_pc
    /\ UiFrame

Next ==
    \/ GenerateInitialSpectrum
    \/ ConstructTimeSpectrum
    \/ ConstructIFFT
    \/ ConstructDisplacement
    \/ SetupOceanRender
    \/ Step
    \/ Dispatch

Spec == Init /\ [][Next]_vars

\* the running application with its debug UI and debug cards, at the
\* resolution 2^MaxUILog2 (and at the next one, which is rejected), seeded
\* away from 2 pi
InitUI ==
    /\ Init
    /\ resolution \in {Pow2(MaxUILog2), Pow2(MaxUILog2) + 1}
    /\ seed_product < TwoPiFloor

NextUI ==
    \/ Next
    \/ DrawOceanSize
    \/ DrawWind
    \/ DrawChoppiness
    \/ QueryPhaseTexture

SpecUI == InitUI /\ [][NextUI]_vars

\* the same, with a spectrum generation that may raise
NextGenFailure ==
    \/ NextUI
    \/ DrawOceanSizeFails
    \/ DrawWindFails

SpecGenFailure == InitUI /\ [][NextGenFailure]_vars

\* ----------------------------------------------------- OrbitCameraController

\* the mouse positions tried, in units of 1 / rotate_speed of the window's
\* half width or height: a mouse movement of one unit turns by one degree
MousePositions == {<<0, 0>>, <<45, -30>>, <<-90, 100>>}

\* the constructor arguments tried: the defaults, and distances and pitches
\* at and next to the ends of their ranges
CameraInputs ==
    {[CameraDefaults EXCEPT !.distance = d, !.pitch = p] :
        d \in {10, 11, 300, 4999, 5000}, p \in {-89, -25, -5}}

\* _imgui_wants_mouse()
ImGuiNeverWantsMouse == FALSE
ImGuiWantsMouse == want_capture_mouse

\* max(self._min_distance, self._distance * 0.9), on whole units
ZoomedIn(d) ==
    LET scaled == (d * 9) \div 10
    IN  IF scaled < min_distance THEN min_distance ELSE scaled

\* min(self._max_distance, self._distance / 0.9), on whole units
ZoomedOutUnclamped(d) == (d * 10) \div 9
ZoomedOut(d) ==
    LET scaled == (d * 10) \div 9
    IN  IF scaled > max_distance THEN max_distance ELSE scaled

\* max(-89.0, min(-5.0, self._pitch))
ClampPitch(p) ==
    LET low == IF p < -5 THEN p ELSE -5
    IN  IF low > -89 THEN low ELSE -89

\* what no camera event touches
CameraFrame ==
    UNCHANGED <<pc, error, appVars, seed_product, textures, gen_count,
                initial_spectrum_tex, timeVars, fftVars, mapVars, ticks,
                frame_log, cfgVars, phase_seed, gen_log,
                debug_initial_spectrum_tex, uiVars, probeVars, gen_failed,
                dataVars, cardVars, gridVars, min_distance, max_distance>>

\* one more event, of kind `op`
CameraEvent(op) ==
    /\ camera_events < MaxCameraEvents
    /\ camera_events' = camera_events + 1
    /\ camera_op' = op
    /\ CameraFrame

\* DebugImGui.draw(): self.want_capture_mouse = imgui's want_capture_mouse
UpdateWantCaptureMouse ==
    /\ CameraEvent("imgui-new-frame")
    /\ want_capture_mouse' \in BOOLEAN
    /\ UNCHANGED <<heading, pitch, distance, dragging, last_mouse>>

\* _start_drag(), on "mouse1"
StartDrag ==
    /\ CameraEvent("mouse1")
    /\ IF ImGuiWantsMouse
       THEN UNCHANGED <<dragging, last_mouse>>
       ELSE /\ dragging' = TRUE
            /\ last_mouse' = NoTex
    /\ UNCHANGED <<heading, pitch, distance, want_capture_mouse>>

\* _stop_drag(), on "mouse1-up"
StopDrag ==
    /\ CameraEvent("mouse1-up")
    /\ dragging' = FALSE
    /\ last_mouse' = NoTex
    /\ UNCHANGED <<heading, pitch, distance, want_capture_mouse>>

\* _zoom_in(), on "wheel_up"
ZoomIn ==
    /\ CameraEvent("wheel_up")
    /\ distance' = IF ImGuiWantsMouse THEN distance ELSE ZoomedIn(distance)
    /\ UNCHANGED <<heading, pitch, dragging, last_mouse, want_capture_mouse>>

\* _zoom_out(), on "wheel_down"
ZoomOut ==
    /\ CameraEvent("wheel_down")
    /\ distance' = IF ImGuiWantsMouse THEN distance ELSE ZoomedOut(distance)
    /\ UNCHANGED <<heading, pitch, dragging, last_mouse, want_capture_mouse>>

\* _task(task), the orbit_camera task
CameraTask ==
    /\ CameraEvent("orbit_camera")
    /\ IF ~dragging
       THEN UNCHANGED <<heading, pitch, dragging, last_mouse>>
       ELSE IF ImGuiWantsMouse
       THEN /\ dragging' = FALSE
            /\ last_mouse' = NoTex
            /\ UNCHANGED <<heading, pitch>>
       ELSE \/ \* not self._app.mouseWatcherNode.hasMouse()
               /\ last_mouse' = NoTex
               /\ UNCHANGED <<heading, pitch, dragging>>
            \/ \E mpos \in MousePositions :
                  IF last_mouse = NoTex
                  THEN /\ last_mouse' = mpos
                       /\ UNCHANGED <<heading, pitch, dragging>>
                  ELSE /\ last_mouse' = mpos
                       /\ heading' = heading - (mpos[1] - last_mouse[1])
                       /\ pitch' = ClampPitch(pitch - (mpos[2] - last_mouse[2]))
                       /\ UNCHANGED dragging
    /\ UNCHANGED <<distance, want_capture_mouse>>

\* the orbit camera on its own: the pipeline plays no part in it
InitCameraInputs ==
    /\ InitPipeline
    /\ resolution = Pow2(MaxUILog2)
    /\ seed_product < TwoPiFloor
    /\ \E args \in CameraInputs : InitCamera(args)
    /\ InitMesh

NextCamera ==
    \/ UpdateWantCaptureMouse
    \/ StartDrag
    \/ StopDrag
    \/ ZoomIn
    \/ ZoomOut
    \/ CameraTask

SpecCamera == InitCameraInputs /\ [][NextCamera]_vars

\* ------------------------------------------------------------ make_ocean_grid

\* the arguments tried: (grid_size, grid_subdiv, uv_tiles)
GridInputs ==
    [grid_size : {1, 200, 8192},
     grid_subdiv : -MaxSubdiv .. MaxSubdiv,
     uv_tiles : {1, 4}]

\* verts_per_side = grid_subdiv + 1
VertsPerSideShort(grid_subdiv) == grid_subdiv
VertsPerSide(grid_subdiv) == grid_subdiv + 1

\* the vertex of column i, row j: x = -half + i * step and
\* y = -half + j * step, kept as multiples of 1 / (2 grid_subdiv);
\* u = (i / grid_subdiv) * uv_tiles and v likewise, kept as multiples of
\* 1 / grid_subdiv
GridVertex(args, i, j) ==
    [x |-> args.grid_size * (2 * i - args.grid_subdiv),
     y |-> args.grid_size * (2 * j - args.grid_subdiv),
     u |-> i * args.uv_tiles,
     v |-> j * args.uv_tiles]

RECURSIVE GridVertices(_, _)
\* for j in range(verts_per_side): for i in range(verts_per_side):
\* the rows from row j on
GridVertices(args, j) ==
    LET n == VertsPerSide(args.grid_subdiv)
    IN  IF j >= n THEN <<>>
        ELSE [k \in 1 .. n |-> GridVertex(args, k - 1, j)]
             \o GridVertices(args, j + 1)

\* the two triangles of the quad of column i, row j
QuadTriangles(verts_per_side, i, j) ==
    LET row0 == j * verts_per_side
        row1 == (j + 1) * verts_per_side
        i0 == row0 + i
        i1 == row0 + i + 1
        i2 == row1 + i
        i3 == row1 + i + 1
    IN  << <<i0, i1, i2>>, <<i1, i3, i2>> >>

RECURSIVE GridTriangles(_, _, _)
\* for j in range(grid_subdiv): for i in range(grid_subdiv):
\* the triangles from the quad (i, j) on
GridTriangles(args, i, j) ==
    IF j >= args.grid_subdiv THEN <<>>
    ELSE IF i >= args.grid_subdiv THEN GridTriangles(args, 0, j + 1)
    ELSE QuadTriangles(VertsPerSide(args.grid_subdiv), i, j)
         \o GridTriangles(args, i + 1, j)

\* make_ocean_grid(grid_size, grid_subdiv, uv_tiles)
MakeOceanGrid ==
    /\ ocean_mesh = NoNode
    /\ ocean_mesh' = IF grid_args.grid_subdiv < 1
                     THEN [name |-> "ValueError"]
                     ELSE [name |-> "ocean",
                           vertices |-> GridVertices(grid_args, 0),
                           triangles |-> GridTriangles(grid_args, 0, 0)]
    /\ UNCHANGED <<pc, error, appVars, seed_product, textures, gen_count,
                   initial_spectrum_tex, timeVars, fftVars, mapVars, ticks,
                   frame_log, cfgVars, phase_seed, gen_log,
                   debug_initial_spectrum_tex, uiVars, probeVars, gen_failed,
                   dataVars, cardVars, cameraVars, grid_args>>

\* the mesh builder on its own, on small subdivisions
InitGrid ==
    /\ InitPipeline
    /\ resolution = Pow2(MaxUILog2)
    /\ seed_product < TwoPiFloor
    /\ InitCamera(CameraDefaults)
    /\ grid_args \in GridInputs
    /\ ocean_mesh = NoNode

SpecGrid == InitGrid /\ [][MakeOceanGrid]_vars

\* the running application with its debug card keys
NextCards ==
    \/ Next
    \/ Toggle
    \/ Cycle

SpecCards == InitUI /\ [][NextCards]_vars

\* ------------------------------------------------------------------ claims

\* n = 2^k for some k >= 0, stated without the code's bit test
IsPowerOfTwo(n) == \E k \in 0 .. MaxLog2 + 1 : n = Pow2(k)

\* the k with 2^k = n, for a power of two n
Exponent(n) == CHOOSE k \in 0 .. MaxLog2 + 1 : n = Pow2(k)

TimeConstructed == phase_np # NoNode /\ spectrum_np # NoNode

Running == pc \in {"tick", "frame"}

\* C1: after construction and any number of step(dt) calls, the buffer bound
\* as the assembler's phase input (u_phases of spectrum_np) is the buffer the
\* phase kernel is bound to write (u_delta_phases of phase_np), and is not the
\* phase kernel's source buffer.
C1_AssemblerReadsWrittenPhase ==
    TimeConstructed =>
        /\ spectrum_np.u_phases = phase_np.u_delta_phases
        /\ spectrum_np.u_phases # phase_np.u_phases

\* two step() calls have run and the frame's phase and assembler kernels have
\* been dispatched with the second call's bindings
C1_Witness ==
    /\ ticks = 2
    /\ <<"ocean_spectrum", 0>> \in Dispatched
    /\ spectrum_np.u_phases = "phase_ping"

\* C2: in every reachable state the phase kernel's source and destination are
\* two different buffers, one of them phase_ping and the other phase_pong.
C2_PhaseSrcDstDistinct ==
    TimeConstructed =>
        /\ phase_np.u_phases # phase_np.u_delta_phases
        /\ {phase_np.u_phases, phase_np.u_delta_phases} = {"phase_ping", "phase_pong"}

\* the phase kernel has been dispatched reading phase_pong, writing phase_ping
C2_Witness ==
    /\ ticks >= 2
    /\ <<"ocean_phase", 0>> \in Dispatched
    /\ phase_np.u_phases = "phase_pong"
    /\ phase_np.u_delta_phases = "phase_ping"

\* C3: for every n >= 1 the source bound by the (n+1)-th step() call is the
\* destination bound by the n-th call, and its destination is the n-th
\* call's source.  (Between two step() calls nothing rebinds the buffers, so
\* phase_np still holds the n-th call's bindings when the (n+1)-th runs.)
C3_RolesSwapEveryStep ==
    [][ (pc = "tick" /\ pc' = "frame" /\ ticks >= 1) =>
           /\ phase_np'.u_phases = phase_np.u_delta_phases
           /\ phase_np'.u_delta_phases = phase_np.u_phases ]_vars

\* a third step() call has bound its buffers
C3_Witness ==
    /\ ticks = 3
    /\ pc = "frame"
    /\ phase_np.u_phases = "phase_ping"
    /\ phase_np.u_delta_phases = "phase_pong"

\* the chain of stages of one frame for a resolution 2^k
ExpectedChain(k) ==
    << <<"ocean_phase", 0>>, <<"ocean_spectrum", 0>> >>
    \o [s \in 1 .. k |-> <<"ocean_fft_h", Pow2(s - 1)>>]
    \o [s \in 1 .. k |-> <<"ocean_fft_v", Pow2(s - 1)>>]
    \o << <<"ocean_unpack_displacement", 0>>, <<"ocean_slope_map", 0>>,
          <<"ocean", 0>> >>

\* C4: for every power-of-two resolution from 2 to 2048 the scene's nodes are
\* the chain phase, assembler, row passes by increasing stage, column passes
\* by increasing stage, unpack, slope, ocean draw; their draw-order tags are
\* strictly increasing along the chain (so pairwise distinct); and the nodes
\* dispatched so far in a frame are a prefix of the chain.
C4_StagesInDependencyOrder ==
    (Running /\ resolution >= 2 /\ resolution <= 2048) =>
        LET chain == ExpectedChain(Exponent(resolution))
        IN  /\ Len(SceneNodes) = Len(chain)
            /\ \A i \in 1 .. Len(chain) : Tag(SceneNodes[i]) = chain[i]
            /\ \A i, j \in 1 .. Len(chain) :
                   i < j => SceneNodes[i].bin < SceneNodes[j].bin
            /\ Len(frame_log) <= Len(chain)
            /\ \A i \in 1 .. Len(frame_log) : frame_log[i] = chain[i]

\* a whole frame of the 2048 pipeline (2 + 22 + 3 nodes) has been dispatched
C4_Witness ==
    /\ resolution = 2048
    /\ pc = "tick"
    /\ ticks >= 1
    /\ Len(frame_log) = 27
    /\ frame_log[27] = <<"ocean", 0>>

\* C5: for every power-of-two N >= 2 the first row pass reads the
\* time-spectrum texture, every later pass reads the buffer the pass before
\* it wrote, no pass reads the buffer it writes, and every pass writes one of
\* the two scratch buffers (never the time-spectrum texture).
C5_PassesChainOverScratch ==
    (pc \in {"maps", "render", "tick", "frame"} /\ resolution >= 2) =>
        /\ fft_nodes # <<>>
        /\ fft_nodes[1].u_input = spectrum_np.u_spectrum
        /\ \A i \in 2 .. Len(fft_nodes) :
               fft_nodes[i].u_input = fft_nodes[i - 1].u_output
        /\ \A i \in 1 .. Len(fft_nodes) :
               /\ fft_nodes[i].u_input # fft_nodes[i].u_output
               /\ fft_nodes[i].u_output \in {"fft_ping", "fft_pong"}
               /\ fft_nodes[i].u_output # spectrum_np.u_spectrum

\* the passes of an 8 x 8 pipeline (3 row, 3 column) exist and the first
\* column pass has been dispatched
C5_Witness ==
    /\ resolution = 8
    /\ Len(fft_nodes) = 6
    /\ <<"ocean_fft_v", 1>> \in Dispatched

\* C6: for every power-of-two N = 2^k >= 2 there are exactly k row passes
\* followed by exactly k column passes, and pass p of each group has
\* sub-sequence size 2^p and total count N.
C6_PassCountAndStride ==
    (pc \in {"maps", "render", "tick", "frame"} /\ resolution >= 2) =>
        \E k \in 1 .. MaxLog2 + 1 :
            /\ Pow2(k) = resolution
            /\ Len(fft_nodes) = 2 * k
            /\ \A i \in 1 .. k :
                   /\ fft_nodes[i].name = "ocean_fft_h"
                   /\ fft_nodes[i].u_subseq_count = Pow2(i - 1)
                   /\ fft_nodes[i].u_total_count = resolution
                   /\ fft_nodes[k + i].name = "ocean_fft_v"
                   /\ fft_nodes[k + i].u_subseq_count = Pow2(i - 1)
                   /\ fft_nodes[k + i].u_total_count = resolution

\* the engine of a 16 x 16 pipeline has been constructed: 4 + 4 passes
C6_Witness ==
    /\ resolution = 16
    /\ pc = "maps"
    /\ Len(fft_nodes) = 8
    /\ fft_nodes[8].u_subseq_count = 8

\* C7: constructing the engine with a resolution that is not a power of two
\* (zero and negative included) raises an error and creates no pass (nor a
\* scratch buffer); with a power of two it succeeds.
C7_NonPowerOfTwoRejected ==
    (pc \notin {"spectrum", "time", "ifft"}) =>
        IF IsPowerOfTwo(resolution)
        THEN pc # "failed" /\ error = "none"
        ELSE /\ pc = "failed"
             /\ error = "ValueError"
             /\ fft_nodes = <<>>
             /\ ifft_displacement = NoTex
             /\ \A t \in textures : t.name \notin {"fft_ping", "fft_pong"}

\* the constructor has raised for N = 6
C7_Witness ==
    /\ resolution = 6
    /\ pc = "failed"
    /\ error = "ValueError"

\* C8: every resolution the pipeline accepts is a power of two and at least
\* 2; N = 1 is rejected at construction.
C8_AcceptedResolutionAtLeastTwo ==
    (pc \in {"maps", "render", "tick", "frame"}) =>
        IsPowerOfTwo(resolution) /\ resolution >= 2

\* C9: generate() with a resolution that is not a power of two fails: it
\* neither creates nor writes (dispatches into) a spectrum field.
C9_GeneratorRejectsNonPowerOfTwo ==
    ~IsPowerOfTwo(resolution) =>
        /\ gen_count = 0
        /\ initial_spectrum_tex = NoTex
        /\ \A t \in textures : t.name # "initial_spectrum"

\* C10: when construction fails for a resolution that is not a power of two,
\* no field has been allocated, no kernel dispatched and no compute stage
\* attached to the scene.
C10_FailsBeforeAnyAllocation ==
    pc = "failed" =>
        /\ textures = {}
        /\ gen_count = 0
        /\ SceneNodes = <<>>

\* ---------------------------------------------------------------------
\* Reconfiguration, regeneration and the debug accessor
\* ---------------------------------------------------------------------

\* C11: a non-positive ocean size is never silently clamped: the value the
\* debug UI passes to set_ocean_size is the value the user typed, also when
\* that value is <= 0 (and the call then fails, leaving every stage's ocean
\* size as it was).
C11_NonPositiveSizeNeverClamped ==
    last_call.op = "set_ocean_size" => last_call.arg = last_call.typed

\* C12: the generator is dispatched once at startup and once per set_wind /
\* set_ocean_size call; step() and set_choppiness never dispatch it: after k
\* wind/size changes the number of generations is 1 + k.
C12_GenerationsAreStartupPlusChanges ==
    IF pc = "spectrum"
    THEN gen_count = 0 /\ gen_log = <<>>
    ELSE gen_count = 1 + calls /\ Len(gen_log) = 1 + calls

\* two wind/size changes, two frames and a choppiness change have happened
C12_Witness ==
    /\ calls >= 2
    /\ ticks >= 2
    /\ choppiness # ChoppinessDefault
    /\ gen_count = 1 + calls

C14_RegenerationInPlace ==
    Running =>
        /\ spectrum_np.u_initial_spectrum = initial_spectrum_tex
        /\ debug_initial_spectrum_tex = initial_spectrum_tex
        /\ gen_log[Len(gen_log)].target = initial_spectrum_tex
        /\ \A i \in 2 .. Len(gen_log) :
              /\ ~gen_log[i].created
              /\ gen_log[i].target = gen_log[i].target_in
        /\ Cardinality({t \in textures : t.name = "initial_spectrum"}) = 1

\* both a set_ocean_size and a set_wind call have regenerated the spectrum
C14_Witness ==
    /\ Running
    /\ calls >= 2
    /\ ocean_size # OceanSizeDefault
    /\ wind_x # WindXDefault

C16_FailedRegenerationKeepsKnownGood ==
    gen_failed =>
        LET good == gen_log[Len(gen_log)].config
        IN  /\ ocean_size = good.ocean_size
            /\ wind_x = good.wind_x
            /\ wind_y = good.wind_y
            /\ time_config.ocean_size = good.ocean_size
            /\ maps_config.ocean_size = good.ocean_size
            /\ phase_np.u_ocean_size = good.ocean_size
            /\ spectrum_np.u_ocean_size = good.ocean_size
            /\ slope_np.u_ocean_size = good.ocean_size

\* C17: step(dt) changes only the phase kernel's source / destination /
\* delta-time bindings, the assembler's phase input and the role flag; the
\* parameters, configs, fields, the initial-spectrum and time-spectrum
\* bindings and every FFT, unpack and slope binding stay as they were.
C17_StepOnlyAdvancesPhase ==
    [][ticks' = ticks + 1 =>
        /\ UNCHANGED <<appVars, cfgVars, textures, gen_count, gen_log,
                       initial_spectrum_tex, fftVars, unpack_np, slope_np>>
        /\ phase_np' = [phase_np EXCEPT
                           !.u_phases = phase_np'.u_phases,
                           !.u_delta_phases = phase_np'.u_delta_phases,
                           !.u_delta_time = phase_np'.u_delta_time]
        /\ spectrum_np' = [spectrum_np EXCEPT
                              !.u_phases = spectrum_np'.u_phases]
    ]_vars

\* step() has just run for the second time, on a pipeline whose choppiness
\* and ocean size were changed
C17_Witness ==
    /\ pc = "frame"
    /\ frame_log = <<>>
    /\ ticks >= 2
    /\ spectrum_np.u_choppiness # ChoppinessDefault
    /\ spectrum_np.u_ocean_size # OceanSizeDefault

\* C18: at every point of a run debug_current_phase_texture() returns the
\* buffer holding the most recently completed phase: the seeded buffer
\* before the first phase dispatch, then the destination of the latest phase
\* dispatch that has run.
C18_DebugTextureHoldsLatestPhase ==
    TimeConstructed => DebugCurrentPhaseTexture = latest_phase

\* C19: debug_current_phase_texture() changes neither the role flag nor a
\* binding: whatever was queried, the roles after k ticks are those of k
\* flips from the constructed state.
C19_QueryLeavesRolesOnSchedule ==
    TimeConstructed =>
        LET bound_as == IF ticks = 0 THEN TRUE ELSE (ticks - 1) % 2 = 0
        IN  /\ phase_is_ping = (ticks % 2 = 0)
            /\ phase_np.u_phases = PhaseSrc(bound_as)
            /\ phase_np.u_delta_phases = PhaseDst(bound_as)
            /\ spectrum_np.u_phases = PhaseDst(bound_as)

\* the accessor was called, and ticks have followed the call
C19_Witness ==
    /\ phase_query # NoTex
    /\ phase_query # DebugCurrentPhaseTexture
    /\ ticks >= 2

\* C20: every value of the current phase buffer lies in [0, 2 pi), the
\* seeded values as stored included (in units of 2^-24: 0 .. TwoPiFloor).
C20_SeededPhaseBelowTwoPi ==
    TimeConstructed => (phase_seed >= 0 /\ phase_seed <= TwoPiFloor)

\* ---------------------------------------------------------------------
\* Fields, parameters and the chain behind the IFFT
\* ---------------------------------------------------------------------

\* C21: every field is N x N with the one N of the configuration, in every
\* state reached by construction, ticks and parameter setters; a running
\* pipeline has each of its eight fields once.
C21_AllFieldsOneResolution ==
    /\ \A t \in textures : t.size = resolution
    /\ Running =>
          /\ {t.name : t \in textures} = FieldNames
          /\ Cardinality(textures) = Cardinality(FieldNames)

\* a pipeline of resolution 2 has run a frame after a wind or size change
C21_Witness ==
    /\ Running
    /\ resolution >= 2
    /\ calls >= 1
    /\ ticks >= 1
    /\ pc = "tick"

\* C22: the resolution is settable at runtime: in a running pipeline, at a
\* tick boundary with the debug UI idle, some operation changes it.
C22_ResolutionSettableAtRuntime ==
    (pc = "tick" /\ ui_pc = "idle") =>
        ENABLED (NextUI /\ resolution' # resolution)

\* C23: a setter changes only its own entries of get_ocean_parameters(), and
\* sets them to the values passed in.
C23_SettersAreIndependent ==
    [][(last_call' # last_call \/ gen_count' # gen_count) =>
        LET before == GetOceanParameters
            after == GetOceanParameters'
            arg == last_call'.arg
        IN  CASE last_call'.op = "set_wind" ->
                    after = [before EXCEPT !.wind_x = arg[1], !.wind_y = arg[2]]
              [] last_call'.op = "set_ocean_size" ->
                    after = [before EXCEPT !.ocean_size = arg]
              [] last_call'.op = "set_choppiness" ->
                    after = [before EXCEPT !.choppiness = arg]
              [] OTHER -> after = before
    ]_vars

\* each of the three setters has been called: all three parameters differ
\* from their defaults
C23_Witness ==
    /\ Running
    /\ ocean_size # OceanSizeDefault
    /\ <<wind_x, wind_y>> # <<WindXDefault, WindYDefault>>
    /\ choppiness # ChoppinessDefault
    /\ last_call.op = "set_choppiness"

HasChoppiness(node) == "u_choppiness" \in DOMAIN node

\* C24: choppiness is bound to the assembler only: no phase, IFFT, unpack or
\* slope node has a choppiness input, and a set_choppiness call rebinds the
\* assembler's value and changes neither the spectrum generation nor the
\* phase roles nor any other binding.
C24_ChoppinessAppliedOnce ==
    [][/\ Running' =>
            /\ HasChoppiness(spectrum_np')
            /\ spectrum_np'.u_choppiness = choppiness'
            /\ ~HasChoppiness(phase_np')
            /\ ~HasChoppiness(unpack_np')
            /\ ~HasChoppiness(slope_np')
            /\ \A i \in 1 .. Len(fft_nodes') : ~HasChoppiness(fft_nodes'[i])
       /\ choppiness' # choppiness =>
            /\ spectrum_np' = [spectrum_np EXCEPT !.u_choppiness = choppiness']
            /\ UNCHANGED <<gen_count, gen_log, initial_spectrum_tex, textures,
                           phase_is_ping, phase_np, fftVars, mapVars>>
    ]_vars

\* set_choppiness has been called on a pipeline with IFFT passes, between
\* two frames
C24_Witness ==
    /\ Running
    /\ fft_nodes # <<>>
    /\ ticks >= 1
    /\ last_call.op = "set_choppiness"
    /\ spectrum_np.u_choppiness # ChoppinessDefault

\* C28: one ocean size is in effect everywhere: the application's value, the
\* two configs, the values bound to the phase kernel, the assembler and the
\* slope kernel, and the size of the most recent spectrum generation.
C28_OneOceanSizeEverywhere ==
    Running =>
        /\ time_config.ocean_size = ocean_size
        /\ maps_config.ocean_size = ocean_size
        /\ phase_np.u_ocean_size = ocean_size
        /\ spectrum_np.u_ocean_size = ocean_size
        /\ slope_np.u_ocean_size = ocean_size
        /\ gen_log[Len(gen_log)].config.ocean_size = ocean_size
        /\ gen_log[Len(gen_log)].inputs.u_ocean_size = ocean_size

\* the ocean size was changed, and a set_wind and a set_choppiness call
\* followed
C28_Witness ==
    /\ Running
    /\ ocean_size # OceanSizeDefault
    /\ gen_log[Len(gen_log)].config.wind_x # WindXDefault
    /\ choppiness # ChoppinessDefault

\* C29: for every accepted resolution the texture the IFFT exposes, bound as
\* the unpack stage's input, is the one written by the last column pass: one
\* of the two scratch buffers, never the input time-spectrum texture.
C29_OutputIsLastColumnPassBuffer ==
    (pc \in {"maps", "render", "tick", "frame"}) =>
        /\ ifft_displacement \in {"fft_ping", "fft_pong"}
        /\ ifft_displacement # spectrum_np.u_spectrum
        /\ fft_nodes # <<>>
        /\ fft_nodes[Len(fft_nodes)].name = "ocean_fft_v"
        /\ fft_nodes[Len(fft_nodes)].u_output = ifft_displacement
        /\ unpack_np # NoNode => unpack_np.u_ifft = ifft_displacement

\* C30: unpack reads the IFFT output and writes the displacement map, slope
\* reads that map and writes the slope map; the two maps are distinct, none
\* is an FFT scratch buffer, and the renderer is bound to exactly these two.
C30_MapsChainWithoutAliasing ==
    Running =>
        /\ unpack_np.u_ifft = ifft_displacement
        /\ slope_np.u_displacement = unpack_np.u_displacement
        /\ unpack_np.u_displacement # slope_np.u_slope_map
        /\ unpack_np.u_displacement # unpack_np.u_ifft
        /\ {unpack_np.u_displacement, slope_np.u_slope_map}
              \cap {"fft_ping", "fft_pong", spectrum_np.u_spectrum} = {}
        /\ ocean_np.u_displacement_map = unpack_np.u_displacement
        /\ ocean_np.u_normal_map = slope_np.u_slope_map
        /\ unpack_np.bin < slope_np.bin
        /\ slope_np.bin < ocean_np.bin

\* a pipeline with IFFT passes has dispatched unpack, slope and the surface
C30_Witness ==
    /\ Running
    /\ resolution >= 4
    /\ Len(frame_log) >= 3
    /\ frame_log[Len(frame_log)] = <<"ocean", 0>>
    /\ frame_log[Len(frame_log) - 1] = <<"ocean_slope_map", 0>>
    /\ frame_log[Len(frame_log) - 2] = <<"ocean_unpack_displacement", 0>>

\* ---------------------------------------------------------------------
\* What the fields hold
\* ---------------------------------------------------------------------

\* the phase dispatch of the current frame has not run yet
PhasePending == pc = "frame" /\ <<"ocean_phase", 0>> \notin Dispatched

\* C25: a displacement field produced by a tick that ran with choppiness 0
\* has zero horizontal components, whatever the wind, the ocean size and the
\* spectrum.
C25_ZeroChoppinessZeroHorizontal ==
    LET d == field["ocean_displacement"]
    IN  (/\ Running
         /\ d.kind = "displacement"
         /\ d.tick = ticks
         /\ frame_snapshot.params.choppiness = 0)
        => d.horizontal_scale = 0

\* choppiness was set to 0 and the wind changed; a later frame has produced
\* its displacement field, after an earlier frame produced one with
\* choppiness 1.5 that the slope map still derives from
C25_Witness ==
    /\ pc = "frame"
    /\ field["ocean_displacement"].kind = "displacement"
    /\ field["ocean_displacement"].tick = ticks
    /\ field["ocean_displacement"].horizontal_scale = 0
    /\ field["ocean_slope"].tick = ticks - 1
    /\ field["fft_ping"].horizontal_scale = 0
    /\ frame_snapshot.params.choppiness = 0
    /\ frame_snapshot.params.wind_x # WindXDefault

\* C26: with a fixed ocean size, after n >= 1 ticks, each followed by its
\* frame's dispatches, the current phase buffer holds
\* wrap(phase_0 + omega * (dt_1 + ... + dt_n), 2 pi), with phase_0 the seeded
\* phase of the cell.
C26_PhaseIsSeedPlusElapsed ==
    (/\ TimeConstructed
     /\ ticks >= 1
     /\ field[latest_phase].tick = ticks)
    => /\ latest_phase = DebugCurrentPhaseTexture
       /\ field[latest_phase].value
            = Wrap(phase_seed + Omega(ocean_size) * elapsed * Pow2(8))

\* three ticks have run and the phase has wrapped past 2 pi
C26_Witness ==
    /\ ticks >= 3
    /\ pc = "tick"
    /\ field[latest_phase].kind = "phase"
    /\ field[latest_phase].tick = ticks
    /\ field[latest_phase].value < phase_seed

\* C27: after construction the phase kernel's source is the seeded buffer
\* and its destination the cleared one, and whenever a phase dispatch is
\* about to run its source is the seeded buffer or one a phase dispatch has
\* written.
C27_SourceIsSeededOrWritten ==
    TimeConstructed =>
        /\ MakeTexture("phase_ping", resolution, TRUE) \in textures
        /\ MakeTexture("phase_pong", resolution, FALSE) \in textures
        /\ (ticks = 0 \/ (ticks = 1 /\ PhasePending)) =>
              /\ phase_np.u_phases = "phase_ping"
              /\ field["phase_ping"].kind = "seed"
              /\ field["phase_ping"].value = phase_seed
              /\ phase_np.u_delta_phases = "phase_pong"
              /\ field["phase_pong"].kind = "clear"
        /\ PhasePending => field[phase_np.u_phases].kind \in {"seed", "phase"}

\* the second advance is about to read phase_pong, which the first wrote
C27_Witness ==
    /\ ticks = 2
    /\ PhasePending
    /\ phase_np.u_phases = "phase_pong"
    /\ field["phase_pong"].kind = "phase"
    /\ field["phase_ping"].kind = "seed"

\* ---------------------------------------------------------------------
\* Dispatch sizes, frame replay, debug cards, UI cache, camera, mesh
\* ---------------------------------------------------------------------

\* `groups` work groups of `local_size` threads cover `threads` threads, and
\* one group fewer would not
CoversExactly(groups, threads, local_size) ==
    /\ local_size * groups >= threads
    /\ threads > local_size * (groups - 1)

\* the per-cell nodes attached so far
CellNodes == {n \in {phase_np, spectrum_np, unpack_np, slope_np} : n # NoNode}

\* C31: every per-cell stage (spectrum generation, phase, assembler, unpack,
\* slope) of a resolution N >= 1 dispatches g x g x 1 groups with
\* 32 g >= N > 32 (g - 1); every FFT pass of a resolution N >= 2 dispatches
\* gx x N x 1 groups with 256 gx >= N / 2 > 256 (gx - 1).
C31_DispatchCoversGridExactly ==
    /\ \A i \in 1 .. Len(gen_log) :
          LET r == gen_log[i]
              g == r.inputs.groups
          IN  r.config.resolution >= 1 =>
                 /\ g[1] = g[2] /\ g[3] = 1
                 /\ CoversExactly(g[1], r.config.resolution, 32)
    /\ \A n \in CellNodes :
          n.u_resolution >= 1 =>
             /\ n.groups[1] = n.groups[2] /\ n.groups[3] = 1
             /\ CoversExactly(n.groups[1], n.u_resolution, 32)
    /\ \A i \in 1 .. Len(fft_nodes) :
          LET n == fft_nodes[i]
          IN  n.u_total_count >= 2 =>
                 /\ n.groups[2] = n.u_total_count /\ n.groups[3] = 1
                 /\ CoversExactly(n.groups[1], n.u_total_count \div 2,
                                  WorkgroupSizeX)

\* a pipeline whose per-cell stages and FFT passes need several groups
C31_Witness ==
    /\ pc = "tick"
    /\ fft_nodes # <<>>
    /\ fft_nodes[1].groups[1] > 1
    /\ unpack_np.groups[1] > 1
    /\ gen_log[1].inputs.groups[1] > 1

\* C32: once a frame's dispatches have run, running them again with the
\* same bindings and no step() in between leaves the phase kernel's
\* destination buffer, and its source buffer, with the contents they had:
\* the dispatch never writes its source.
C32_FrameReplayKeepsPhase ==
    (pc = "tick" /\ ticks >= 1) =>
        LET again == RenderFrameOn(field, {})
        IN  /\ phase_np.u_phases # phase_np.u_delta_phases
            /\ again[phase_np.u_delta_phases] = field[phase_np.u_delta_phases]
            /\ again[phase_np.u_phases] = field[phase_np.u_phases]
            /\ again[spectrum_np.u_spectrum] = field[spectrum_np.u_spectrum]

\* the second frame has run: its phase source was written by the first
\* frame and its destination holds a phase advanced from it
C32_Witness ==
    /\ pc = "tick"
    /\ ticks = 2
    /\ field[phase_np.u_phases].kind = "phase"
    /\ field[phase_np.u_delta_phases].kind = "phase"
    /\ field[phase_np.u_delta_phases].value # field[phase_np.u_phases].value
    /\ RenderFrameOn(field, {}) = field

\* C33: while the debug view is in phase mode, the texture on the debug
\* card is, at every frame, the buffer debug_current_phase_texture()
\* returns at that frame.
C33_PhaseCardFollowsCurrentPhase ==
    (Running /\ debug_mode = 1) =>
        debug_card.texture = DebugCurrentPhaseTexture

\* the card, label and mode of each of the five views
ViewOfMode(mode, snapshot) ==
    /\ snapshot.mode = mode
    /\ mode = 0 => /\ snapshot.texture = initial_spectrum_tex
                   /\ snapshot.label = "Initial spectrum"
                   /\ snapshot.u_mode = 0
    /\ mode = 1 => /\ snapshot.texture = DebugCurrentPhaseTexture
                   /\ snapshot.label = "Phase"
                   /\ snapshot.u_mode = 3
    /\ mode = 2 => /\ snapshot.texture = "time_spectrum"
                   /\ snapshot.label = "Time spectrum"
                   /\ snapshot.u_mode = 1
    /\ mode = 3 => /\ snapshot.texture = "ocean_displacement"
                   /\ snapshot.label = "Displacement (height)"
                   /\ snapshot.u_mode = 4
    /\ mode = 4 => /\ snapshot.texture = "ocean_slope"
                   /\ snapshot.label = "Normal map"
                   /\ snapshot.u_mode = 5

\* C34: the debug mode is always in 0..4 and is 0, the initial spectrum
\* view, after construction; a step that changes the mode is a cycle() of
\* the visible card, moves to (mode + 1) mod 5 and leaves the texture, label
\* and shader mode of that view; the view left by a cycle(), or by the
\* constructor, is the view left by the fifth cycle() after it.
C34_DebugViewIsFiveCycle ==
    /\ [](Running =>
            /\ debug_mode \in 0 .. 4
            /\ Len(card_trail) = 5 + 1 => card_trail[5 + 1] = card_trail[1])
    /\ [][(pc = "render" /\ pc' = "tick") =>
             (debug_mode' = 0 /\ ViewOfMode(0, CardSnapshot)')]_vars
    /\ [][(Running /\ debug_mode' # debug_mode) =>
             /\ debug_visible /\ debug_visible'
             /\ debug_mode' = (debug_mode + 1) % 5
             /\ ViewOfMode(debug_mode, CardSnapshot)']_vars

\* six cycle() calls in a row after a tick: the phase view was set, the
\* four other views were gone through, and the phase view is back
C34_Witness ==
    /\ Running
    /\ ticks >= 1
    /\ debug_visible
    /\ Len(card_trail) = 5 + 1
    /\ card_trail[1].mode = 1
    /\ card_trail[3].mode = 3
    /\ debug_mode = 1
    /\ debug_card.texture = card_trail[1].texture

\* what the simulation consists of
SimulationVars ==
    <<appVars, textures, gen_count, initial_spectrum_tex, timeVars, fftVars,
      mapVars, ticks, frame_log, cfgVars, phase_seed, gen_log, dataVars>>

\* C35: while the card is hidden no step changes the mode, the card or the
\* label; a step that changes the visibility changes nothing else of the
\* card and its label; no step that changes the card, the label, the mode
\* or the visibility changes any simulation state.
C35_HiddenCycleAndToggleKeepView ==
    [][Running =>
         /\ (~debug_visible /\ ~debug_visible') =>
               UNCHANGED <<debug_mode, debug_card, debug_label>>
         /\ (debug_visible' # debug_visible) =>
               /\ CardSnapshot' = CardSnapshot
               /\ debug_card'.hidden = ~debug_visible'
               /\ debug_label'.hidden = ~debug_visible'
         /\ (<<debug_mode, debug_visible, debug_card, debug_label>>'
               # <<debug_mode, debug_visible, debug_card, debug_label>>) =>
               UNCHANGED SimulationVars]_vars

\* the displacement view was selected, the card was hidden, and frames have
\* run since: the hidden card still holds the displacement view
C35_Witness ==
    /\ Running
    /\ ~debug_visible
    /\ debug_card.hidden
    /\ debug_mode = 3
    /\ debug_card.texture = "ocean_displacement"
    /\ debug_label.text = "Displacement (height)"
    /\ card_trail = <<>>
    /\ ticks >= 2

\* C36: once the UI is bound, its cached ocean size, wind and choppiness are
\* the values get_ocean_parameters() reports, whatever was edited; a UI
\* frame in which a wind field was edited regenerates the spectrum exactly
\* once, with both wind components as the UI holds them.
C36_UiCacheMatchesApplication ==
    /\ [](Running =>
            \A k \in {"ocean_size", "wind_x", "wind_y", "choppiness"} :
                ui_params[k] = GetOceanParameters[k])
    /\ [][(/\ Running
           /\ <<ui_params.wind_x, ui_params.wind_y>>'
                # <<ui_params.wind_x, ui_params.wind_y>>) =>
             /\ gen_count' = gen_count + 1
             /\ Len(gen_log') = Len(gen_log) + 1
             /\ LET g == gen_log'[Len(gen_log')]
                IN  /\ g.config.wind_x = ui_params'.wind_x
                    /\ g.config.wind_y = ui_params'.wind_y
                    /\ g.inputs.u_wind = <<ui_params'.wind_x, ui_params'.wind_y>>
                    /\ g.config.ocean_size = ui_params'.ocean_size]_vars

\* the ocean size was typed as 0 and cached as 1, then only "Wind X" was
\* edited, then the choppiness: the last generation ran with the new X and
\* the old Y
C36_Witness ==
    /\ Running
    /\ ui_pc = "idle"
    /\ ui_params.ocean_size = 1
    /\ ui_params.wind_x # WindXDefault
    /\ ui_params.wind_y = WindYDefault
    /\ ui_params.choppiness # ChoppinessDefault
    /\ gen_count = 3
    /\ gen_log[3].config.wind_x = ui_params.wind_x
    /\ gen_log[3].config.wind_y = WindYDefault

\* C37: while the debug UI wants the mouse, a wheel event or a mouse button
\* press leaves heading, pitch, distance and the dragging flag as they are,
\* and a run of the camera task during a drag ends the drag and leaves
\* heading and pitch as they are.
C37_CameraIgnoresInputWhileUiWantsMouse ==
    [][(want_capture_mouse /\ camera_events' # camera_events) =>
         /\ camera_op' \in {"wheel_up", "wheel_down", "mouse1"} =>
               UNCHANGED <<heading, pitch, distance, dragging>>
         /\ (camera_op' = "orbit_camera" /\ dragging) =>
               /\ ~dragging'
               /\ last_mouse' = NoTex
               /\ UNCHANGED <<heading, pitch, distance>>]_vars

\* a drag had started and taken its first mouse position, the UI then took
\* the mouse, and the camera task has just cancelled the drag
C37_Witness ==
    /\ want_capture_mouse
    /\ camera_op = "orbit_camera"
    /\ camera_events = 4
    /\ ~dragging
    /\ last_mouse = NoTex
    /\ heading = 0

\* C38: the camera distance stays within [min_distance, max_distance] and
\* the pitch within [-89, -5], from any initial distance and pitch within
\* these ranges, through zoom-in, zoom-out and drag updates.
C38_DistanceAndPitchStayInRange ==
    /\ min_distance <= distance
    /\ distance <= max_distance
    /\ -89 <= pitch
    /\ pitch <= -5

\* a drag has turned the camera and run into the upper pitch limit, then a
\* zoom-out ran into the largest distance
C38_Witness ==
    /\ camera_op = "wheel_down"
    /\ distance = max_distance
    /\ (distance * 10) \div 9 > max_distance
    /\ pitch = -5
    /\ heading # 0
    /\ dragging

\* C39: make_ocean_grid raises ValueError for every grid_subdiv < 1; for
\* every grid_subdiv s >= 1 it returns (s + 1)^2 vertices and 2 s^2
\* triangles, and every vertex index of a triangle is in 0 .. (s + 1)^2 - 1.
C39_GridCountsAndIndices ==
    ocean_mesh # NoNode =>
        LET s == grid_args.grid_subdiv
        IN  IF s < 1 THEN ocean_mesh.name = "ValueError"
            ELSE /\ ocean_mesh.name = "ocean"
                 /\ Len(ocean_mesh.vertices) = (s + 1) * (s + 1)
                 /\ Len(ocean_mesh.triangles) = 2 * s * s
                 /\ \A t \in 1 .. Len(ocean_mesh.triangles) :
                       \A c \in 1 .. 3 :
                          ocean_mesh.triangles[t][c] \in 0 .. (s + 1) * (s + 1) - 1

\* a 3 x 3 grid: 16 vertices, 18 triangles, the last one ending at the
\* last vertex but one
C39_Witness ==
    /\ ocean_mesh.name = "ocean"
    /\ grid_args.grid_subdiv = 3
    /\ Len(ocean_mesh.vertices) = 16
    /\ Len(ocean_mesh.triangles) = 18
    /\ ocean_mesh.triangles[18] = <<11, 15, 14>>
    /\ ocean_mesh.vertices[16].x = 3 * grid_args.grid_size

====
